---- MODULE Spec2Model ----
(***************************************************************************)
(* The controller service of the EBS CSI driver (pkg/driver/controller.go) *)
(* as a state machine.  The driver itself is stateless: the state is the   *)
(* remote backend's (disks, snapshots), the position of each in-flight     *)
(* CreateVolume / CreateSnapshot call between its two backend calls, and   *)
(* the record of the call that completed last.                             *)
(***************************************************************************)
EXTENDS Integers, Sequences, FiniteSets, TLC

(***************************************************************************)
(* Bounds of the model.  Byte counts are scaled: GiB is the number of      *)
(* bytes in one allocation unit of the scaled model.                       *)
(***************************************************************************)
GiB == 2
MaxBytes == 3
MaxVols == 2
MaxSnaps == 2
MaxCaps == 2
MaxTopo == 2

Procs == {"p1", "p2"}

(***************************************************************************)
(* Constants of the driver and of the cloud package.                       *)
(***************************************************************************)
FsTypeKey == "fstype"
VolumeTypeKey == "type"
IopsPerGBKey == "iopsPerGB"
EncryptedKey == "encrypted"
KmsKeyIdKey == "kmsKeyId"
TopologyKey == "topology.ebs.csi.aws.com/zone"
OtherKey == "kubernetes.io/hostname"
DevicePathKey == "devicePath"
VolumeTypeIO1 == "io1"
DefaultVolumeSize == 100 * GiB

SINGLE_NODE_WRITER == "SINGLE_NODE_WRITER"
MULTI_NODE_MULTI_WRITER == "MULTI_NODE_MULTI_WRITER"

\* volumeCaps: the supported access modes
volumeCaps == << [mode |-> SINGLE_NODE_WRITER] >>

(***************************************************************************)
(* util: byte arithmetic                                                   *)
(***************************************************************************)
RoundUpBytes(volumeSizeBytes) == ((volumeSizeBytes + GiB - 1) \div GiB) * GiB
GiBToBytes(gib) == gib * GiB
BytesToGiB(bytes) == bytes \div GiB

\* a Go map read: the zero value for a missing key
MapGet(m, k) == IF k \in DOMAIN m THEN m[k] ELSE ""

\* strconv.Atoi on the strings the requests carry
Atoi(s) ==
    IF s = "100" THEN [err |-> FALSE, val |-> 100]
    ELSE [err |-> TRUE, val |-> 0]

(***************************************************************************)
(* isValidVolumeCapabilities                                               *)
(***************************************************************************)
hasSupport(cap) ==
    \E i \in 1..Len(volumeCaps) : volumeCaps[i].mode = cap.mode

RECURSIVE foundAllFrom(_, _)
foundAllFrom(volCaps, foundAll) ==
    IF volCaps = <<>> THEN foundAll
    ELSE foundAllFrom(Tail(volCaps),
                      IF ~hasSupport(Head(volCaps)) THEN FALSE ELSE foundAll)

\* a slip: the loop stops at the first capability
isValidVolumeCapabilities_FirstOnly(volCaps) ==
    volCaps = <<>> \/ hasSupport(Head(volCaps))

isValidVolumeCapabilities(volCaps) == foundAllFrom(volCaps, TRUE)

(***************************************************************************)
(* pickAvailabilityZone                                                    *)
(***************************************************************************)
RECURSIVE firstZone(_)
firstZone(topologies) ==
    IF topologies = <<>> THEN [exists |-> FALSE, zone |-> ""]
    ELSE IF TopologyKey \in DOMAIN Head(topologies)
         THEN [exists |-> TRUE, zone |-> Head(topologies)[TopologyKey]]
         ELSE firstZone(Tail(topologies))

\* a slip: the requisite topologies are scanned before the preferred ones
pickAvailabilityZone_RequisiteFirst(requirement) ==
    IF ~requirement.present THEN ""
    ELSE LET p == firstZone(requirement.preferred)
             q == firstZone(requirement.requisite)
         IN  IF q.exists THEN q.zone
             ELSE IF p.exists THEN p.zone
             ELSE ""

pickAvailabilityZone(requirement) ==
    IF ~requirement.present THEN ""
    ELSE LET p == firstZone(requirement.preferred)
             q == firstZone(requirement.requisite)
         IN  IF p.exists THEN p.zone
             ELSE IF q.exists THEN q.zone
             ELSE ""

(***************************************************************************)
(* State                                                                   *)
(***************************************************************************)
VARIABLES
    disks,      \* backend: the live volumes, records [id, name, gib, zone,
                \* volumeType, encrypted, snapshotID]
    nextVol,    \* backend: number of the next volume identifier it assigns
    snaps,      \* backend: the live snapshots, records
                \* [id, name, src, ready, timeOk]
    nextSnap,   \* backend: number of the next snapshot identifier
    pc,         \* per caller: "ready", or "create" ("snapcreate") between
                \* the lookup and the create call of its CreateVolume
                \* (CreateSnapshot)
    call,       \* per caller: the locals of its in-flight call
    okVol,      \* history: the last successful CreateVolume that ran with no
                \* backend change by anyone else, valid until the next change
    okSnap,     \* history: the same for CreateSnapshot
    attached,   \* backend: the attachments, records [vol, node, dev]
    last        \* history: the call that returned last, with its request,
                \* its response and the backend calls it made

vars == <<disks, nextVol, snaps, nextSnap, pc, call, okVol, okSnap, attached, last>>

VolId(i) == "vol-" \o ToString(i)
VolIds == {VolId(i) : i \in 1..MaxVols}
Zones == {"a", "b"}
SnapId(i) == "snap-" \o ToString(i)
SnapIds == {SnapId(i) : i \in 1..MaxSnaps}

NoDisk == [id |-> "", name |-> "", gib |-> 0, zone |-> "", volumeType |-> "",
           encrypted |-> FALSE, snapshotID |-> ""]
NoCall == [clean |-> TRUE]
NoOk == [valid |-> FALSE, name |-> "", size |-> 0, id |-> ""]
NoSnapshot == [id |-> "", name |-> "", src |-> "", ready |-> FALSE, timeOk |-> FALSE]
NoOkSnap == [valid |-> FALSE, name |-> "", src |-> "", id |-> ""]
NoSnap == [SnapshotId |-> "", SourceVolumeId |-> "", ReadyToUse |-> FALSE]
NoVolume == [VolumeId |-> "", CapacityBytes |-> 0, VolumeContext |-> << >>,
             AccessibleTopology |-> <<>>]

(***************************************************************************)
(* The backend collaborator (package cloud), from its interface:           *)
(* each operator gives the answer the backend's state determines; every    *)
(* call may instead fail with an error of no particular kind, "ErrOther".  *)
(***************************************************************************)
DisksByName(name) == {d \in disks : d.name = name}

GetDiskByName(name, capacityBytes) ==
    LET found == DisksByName(name)
    IN  IF found = {} THEN [err |-> "ErrNotFound", disk |-> NoDisk]
        ELSE IF Cardinality(found) > 1
             THEN [err |-> "ErrMultiDisks", disk |-> NoDisk]
        ELSE LET d == CHOOSE x \in found : TRUE
             IN  IF GiBToBytes(d.gib) # capacityBytes
                 THEN [err |-> "ErrDiskExistsDiffSize", disk |-> NoDisk]
                 ELSE [err |-> "nil", disk |-> d]

GetDiskByID(volumeID) ==
    IF \E d \in disks : d.id = volumeID
    THEN [err |-> "nil", disk |-> CHOOSE d \in disks : d.id = volumeID]
    ELSE [err |-> "ErrNotFound", disk |-> NoDisk]

\* a volume that is attached is in use: the backend refuses to delete it
DeleteDisk(volumeID) ==
    IF ~\E d \in disks : d.id = volumeID THEN "ErrNotFound"
    ELSE IF \E a \in attached : a.vol = volumeID THEN "ErrOther"
    ELSE "nil"

\* the disk create-disk makes: a fresh identifier, the capacity in GiB, the
\* zone asked for, or one of the backend's choosing when none is asked for
CreateDisk(volName, opts, z) ==
    [id |-> VolId(nextVol), name |-> volName,
     gib |-> BytesToGiB(opts.CapacityBytes),
     zone |-> IF opts.AvailabilityZone = "" THEN z ELSE opts.AvailabilityZone,
     volumeType |-> opts.VolumeType,
     encrypted |-> opts.Encrypted,
     snapshotID |-> opts.SnapshotID]

Failed == [err |-> "ErrOther", disk |-> NoDisk]

SnapshotsByName(name) == {x \in snaps : x.name = name}

GetSnapshotByName(name) ==
    LET found == SnapshotsByName(name)
    IN  IF found = {} THEN [err |-> "ErrNotFound", snapshot |-> NoSnapshot]
        ELSE IF Cardinality(found) > 1
             THEN [err |-> "ErrMultiSnapshots", snapshot |-> NoSnapshot]
        ELSE [err |-> "nil", snapshot |-> CHOOSE x \in found : TRUE]

\* the snapshot create-snapshot makes: a fresh identifier, the name tag and
\* the source volume; the backend decides whether it is ready yet and what
\* its creation time is (timeOk: a time the protocol's timestamp can hold)
CreateSnapshot(volumeID, opts, ready, timeOk) ==
    [id |-> SnapId(nextSnap), name |-> opts.name, src |-> volumeID,
     ready |-> ready, timeOk |-> timeOk]

DeleteSnapshotById(snapshotID) ==
    IF \E x \in snaps : x.id = snapshotID THEN "nil" ELSE "ErrNotFound"

FailedSnap == [err |-> "ErrOther", snapshot |-> NoSnapshot]

\* the compute instances of the backend, and the device paths it assigns
Instances == {"i-1", "i-2"}
Devices == {"/dev/xvdba", "/dev/xvdbb"}

IsExistInstance(nodeID) == nodeID \in Instances

\* attach-disk: the device path of the attachment; the one the volume has
\* on this node already, dev for a new attachment; already-exists for a
\* volume attached to another node; an error for a volume or an instance
\* that does not exist
AttachDisk(volumeID, nodeID, dev) ==
    IF ~(\E d \in disks : d.id = volumeID) \/ ~IsExistInstance(nodeID)
    THEN [err |-> "ErrOther", devicePath |-> ""]
    ELSE IF \E a \in attached : a.vol = volumeID /\ a.node = nodeID
    THEN [err |-> "nil",
          devicePath |-> (CHOOSE a \in attached :
                             a.vol = volumeID /\ a.node = nodeID).dev]
    ELSE IF \E a \in attached : a.vol = volumeID
    THEN [err |-> "ErrAlreadyExists", devicePath |-> ""]
    ELSE [err |-> "nil", devicePath |-> dev]

FailedAttach == [err |-> "ErrOther", devicePath |-> ""]

\* detach-disk: detaching what is not attached is accepted as a no-op
DetachDisk(volumeID, nodeID) ==
    {a \in attached : ~(a.vol = volumeID /\ a.node = nodeID)}

(***************************************************************************)
(* CreateVolume: the pure parts of the handler                             *)
(***************************************************************************)
\* a slip: a limit equal to the normalized size is rejected too
ExceedsLimit_OrEqual(capRange, volSizeBytes) ==
    LET maxVolSize == capRange.LimitBytes
    IN  maxVolSize > 0 /\ maxVolSize <= volSizeBytes

\* a slip: the limit is compared with the size asked for, before rounding
ExceedsLimit_BeforeRounding(capRange, volSizeBytes) ==
    LET maxVolSize == capRange.LimitBytes
    IN  maxVolSize > 0 /\ maxVolSize < capRange.RequiredBytes

\* lines 63-64: the normalized size against the caller's limit
ExceedsLimit(capRange, volSizeBytes) ==
    LET maxVolSize == capRange.LimitBytes
    IN  maxVolSize > 0 /\ maxVolSize < volSizeBytes

\* lines 57-67: the size to ask the backend for
volSizeBytesOf(capRange) ==
    IF ~capRange.present THEN DefaultVolumeSize
    ELSE RoundUpBytes(capRange.RequiredBytes)

\* a change: the checks of the create path made with the request checks,
\* before the lookup
CreateVolumeCheck_WithCreateChecks(req) ==
    LET capRange == req.CapacityRange
        volSizeBytes == volSizeBytesOf(capRange)
        volCaps == req.VolumeCapabilities
        volumeType == MapGet(req.Parameters, VolumeTypeKey)
        volumeSource == req.VolumeContentSource
    IN  IF req.Name = ""
        THEN [msg |-> "Volume name not provided", size |-> 0]
        ELSE IF capRange.present /\ ExceedsLimit(capRange, volSizeBytes)
        THEN [msg |-> "After round-up, volume size exceeds the limit specified",
              size |-> volSizeBytes]
        ELSE IF Len(volCaps) = 0
        THEN [msg |-> "Volume capabilities not provided", size |-> volSizeBytes]
        ELSE IF ~isValidVolumeCapabilities(volCaps)
        THEN [msg |-> "Volume capabilities not supported", size |-> volSizeBytes]
        ELSE IF /\ volumeType = VolumeTypeIO1
                /\ Atoi(MapGet(req.Parameters, IopsPerGBKey)).err
        THEN [msg |-> "Could not parse invalid iopsPerGB", size |-> volSizeBytes]
        ELSE IF volumeSource.present /\ volumeSource.type # "snapshot"
        THEN [msg |-> "Unsupported volumeContentSource type",
              size |-> volSizeBytes]
        ELSE [msg |-> "", size |-> volSizeBytes]

\* lines 52-76: the checks that precede the first backend call; msg is the
\* invalid-argument error returned, "" when the request passes
CreateVolumeCheck(req) ==
    LET capRange == req.CapacityRange
        volSizeBytes == volSizeBytesOf(capRange)
        volCaps == req.VolumeCapabilities
    IN  IF req.Name = ""
        THEN [msg |-> "Volume name not provided", size |-> 0]
        ELSE IF capRange.present /\ ExceedsLimit(capRange, volSizeBytes)
        THEN [msg |-> "After round-up, volume size exceeds the limit specified",
              size |-> volSizeBytes]
        ELSE IF Len(volCaps) = 0
        THEN [msg |-> "Volume capabilities not provided", size |-> volSizeBytes]
        ELSE IF ~isValidVolumeCapabilities(volCaps)
        THEN [msg |-> "Volume capabilities not supported", size |-> volSizeBytes]
        ELSE [msg |-> "", size |-> volSizeBytes]

\* a slip: the size mismatch taken for "not found"
LookupCode_MismatchAsAbsent(err) ==
    CASE err = "ErrNotFound" -> ""
      [] err = "ErrMultiDisks" -> "Internal"
      [] err = "ErrDiskExistsDiffSize" -> ""
      [] OTHER -> "Internal"

\* a slip: several volumes of one name reported as a conflict
LookupCode_MultiAsConflict(err) ==
    CASE err = "ErrNotFound" -> ""
      [] err = "ErrMultiDisks" -> "AlreadyExists"
      [] err = "ErrDiskExistsDiffSize" -> "AlreadyExists"
      [] OTHER -> "Internal"

\* a slip: a lookup that failed is taken for "not found"
LookupCode_ErrorAsAbsent(err) ==
    CASE err = "ErrNotFound" -> ""
      [] err = "ErrMultiDisks" -> "Internal"
      [] err = "ErrDiskExistsDiffSize" -> "AlreadyExists"
      [] OTHER -> ""

\* lines 79-89: the error class for a lookup error, "" to go on and create
LookupCode(err) ==
    CASE err = "ErrNotFound" -> ""
      [] err = "ErrMultiDisks" -> "Internal"
      [] err = "ErrDiskExistsDiffSize" -> "AlreadyExists"
      [] OTHER -> "Internal"

\* a slip: the early return for the volume that exists is never taken
DiskFound_Never(out) == FALSE

\* lines 94-98: the lookup returned a disk (disk != nil)
DiskFound(out) == out.err = "nil"

\* lines 101-140: the options of the disk to create; msg is the
\* invalid-argument error returned instead, "" when there is none
CreateVolumeOpts(req, volSizeBytes) ==
    LET volumeParams == req.Parameters
        zone == pickAvailabilityZone(req.AccessibilityRequirements)
        volumeType == MapGet(volumeParams, VolumeTypeKey)
        iops == Atoi(MapGet(volumeParams, IopsPerGBKey))
        isEncrypted == MapGet(volumeParams, EncryptedKey) = "true"
        volumeSource == req.VolumeContentSource
        opts == [CapacityBytes |-> volSizeBytes,
                 VolumeType |-> volumeType,
                 IOPSPerGB |-> IF volumeType = VolumeTypeIO1 THEN iops.val ELSE 0,
                 AvailabilityZone |-> zone,
                 Encrypted |-> isEncrypted,
                 KmsKeyID |-> IF isEncrypted
                              THEN MapGet(volumeParams, KmsKeyIdKey) ELSE "",
                 SnapshotID |-> IF volumeSource.present
                                THEN volumeSource.SnapshotId ELSE ""]
    IN  IF volumeType = VolumeTypeIO1 /\ iops.err
        THEN [msg |-> "Could not parse invalid iopsPerGB", opts |-> opts]
        ELSE IF volumeSource.present /\ volumeSource.type # "snapshot"
        THEN [msg |-> "Unsupported volumeContentSource type", opts |-> opts]
        ELSE IF volumeSource.present /\ ~volumeSource.hasSnapshot
        THEN [msg |-> "Error retrieving snapshot from the volumeContentSource",
              opts |-> opts]
        ELSE [msg |-> "", opts |-> opts]

\* a slip: the response is built without the accessible topology
newCreateVolumeResponse_NoTopology(disk, fsType) ==
    [VolumeId |-> disk.id,
     CapacityBytes |-> GiBToBytes(disk.gib),
     VolumeContext |-> (FsTypeKey :> fsType),
     AccessibleTopology |-> << >>]

\* lines 385-400
newCreateVolumeResponse(disk, fsType) ==
    [VolumeId |-> disk.id,
     CapacityBytes |-> GiBToBytes(disk.gib),
     VolumeContext |-> (FsTypeKey :> fsType),
     AccessibleTopology |-> << (TopologyKey :> disk.zone) >>]

(***************************************************************************)
(* The requests the callers send                                           *)
(***************************************************************************)
EmptyMap == [k \in {} |-> ""]
NoRange == [present |-> FALSE, RequiredBytes |-> 0, LimitBytes |-> 0]
CapRange(required, limit) ==
    [present |-> TRUE, RequiredBytes |-> required, LimitBytes |-> limit]
CapRanges == {NoRange} \cup {CapRange(r, l) : r \in 0..MaxBytes, l \in 0..MaxBytes}

Modes == {SINGLE_NODE_WRITER, MULTI_NODE_MULTI_WRITER}
CapLists == UNION {[1..n -> {[mode |-> m] : m \in Modes}] : n \in 0..MaxCaps}
OneWriter == << [mode |-> SINGLE_NODE_WRITER] >>

Segments == {EmptyMap, (OtherKey :> "n1"), (TopologyKey :> "a"),
             (TopologyKey :> "b"), (TopologyKey :> "b") @@ (OtherKey :> "n1")}
Topologies == UNION {[1..n -> Segments] : n \in 0..MaxTopo}
NoRequirement == [present |-> FALSE, preferred |-> <<>>, requisite |-> <<>>]
Requirement(preferred, requisite) ==
    [present |-> TRUE, preferred |-> preferred, requisite |-> requisite]
Requirements ==
    {NoRequirement} \cup {Requirement(p, q) : p \in Topologies, q \in Topologies}

NoSource == [present |-> FALSE, type |-> "", hasSnapshot |-> FALSE, SnapshotId |-> ""]
Sources == {NoSource,
            [present |-> TRUE, type |-> "snapshot", hasSnapshot |-> TRUE,
             SnapshotId |-> "snap-1"],
            [present |-> TRUE, type |-> "snapshot", hasSnapshot |-> FALSE,
             SnapshotId |-> ""],
            [present |-> TRUE, type |-> "volume", hasSnapshot |-> FALSE,
             SnapshotId |-> ""]}

ParamMaps == {EmptyMap,
              (FsTypeKey :> "ext4"),
              (VolumeTypeKey :> "gp2") @@ (EncryptedKey :> "true")
                  @@ (KmsKeyIdKey :> "key-1"),
              (VolumeTypeKey :> VolumeTypeIO1),
              (VolumeTypeKey :> VolumeTypeIO1) @@ (IopsPerGBKey :> "abc"),
              (VolumeTypeKey :> VolumeTypeIO1) @@ (IopsPerGBKey :> "100")}

CreateVolumeRequest(name, capRange, volCaps, requirement, params, source) ==
    [Name |-> name, CapacityRange |-> capRange, VolumeCapabilities |-> volCaps,
     AccessibilityRequirements |-> requirement, Parameters |-> params,
     VolumeContentSource |-> source]

\* the requests of the model: every capacity range for one name, and each
\* other argument varied on its own
CreateVolumeRequests ==
    {CreateVolumeRequest("v1", c, OneWriter, NoRequirement, EmptyMap, NoSource) :
        c \in CapRanges}
    \cup {CreateVolumeRequest(n, c, OneWriter, NoRequirement, EmptyMap, NoSource) :
        n \in {"", "v2"}, c \in {NoRange, CapRange(1, 0)}}
    \cup {CreateVolumeRequest("v1", CapRange(1, 0), vc, NoRequirement, EmptyMap, NoSource) :
        vc \in CapLists}
    \cup {CreateVolumeRequest("v1", CapRange(1, 0), OneWriter, t, EmptyMap, NoSource) :
        t \in {Requirement(<< (TopologyKey :> "a") >>, << (TopologyKey :> "b") >>),
               Requirement(<< >>, << (TopologyKey :> "b") >>)}}
    \cup {CreateVolumeRequest("v1", CapRange(1, 0), OneWriter, NoRequirement, m, NoSource) :
        m \in ParamMaps}
    \cup {CreateVolumeRequest("v1", CapRange(1, 0), OneWriter, NoRequirement, EmptyMap, src) :
        src \in Sources}

(***************************************************************************)
(* The record of a returned call, and its effect on the histories          *)
(***************************************************************************)
Returned(op, req, code, msg, calls, res, replayOf) ==
    [op |-> op, req |-> req, code |-> code, msg |-> msg, calls |-> calls,
     res |-> res, replayOf |-> replayOf]

\* the identifier an earlier successful call for this name and size (this
\* name and source volume) returned, when no one else has changed the
\* backend since that call began; "" when there is no such call
VolReplayOf(name, size) ==
    IF okVol.valid /\ okVol.name = name /\ okVol.size = size THEN okVol.id ELSE ""
SnapReplayOf(name, src) ==
    IF okSnap.valid /\ okSnap.name = name /\ okSnap.src = src THEN okSnap.id ELSE ""

\* a backend change by caller p (or by an atomic handler, p = ""): every
\* other in-flight call has now seen the backend changed by someone else
Disturb(p) ==
    [q \in Procs |-> IF q # p /\ pc[q] # "ready"
                     THEN [call[q] EXCEPT !.clean = FALSE] ELSE call[q]]

(***************************************************************************)
(* CreateVolume, lines 50-140: the request checks, the lookup by name and  *)
(* what follows it up to the create-disk call                              *)
(***************************************************************************)
\* a change: a handler waits while another call for its name is in flight
HandlerStarts_NameLock(p, name) ==
    /\ pc[p] = "ready"
    /\ \A q \in Procs : pc[q] # "ready" => call[q].req.Name # name

\* line 50: a handler starts whenever its caller calls; it takes no lock
HandlerStarts(p, name) == pc[p] = "ready"

CreateVolumeLookup(p, req) ==
    LET chk == CreateVolumeCheck(req) IN
    /\ HandlerStarts(p, req.Name)
    /\ IF chk.msg # ""
       THEN /\ last' = Returned("CreateVolume", req, "InvalidArgument", chk.msg,
                                << >>, NoVolume, VolReplayOf(req.Name, chk.size))
            /\ UNCHANGED <<disks, nextVol, snaps, nextSnap, pc, call, okVol, okSnap, attached>>
       ELSE \E out \in {GetDiskByName(req.Name, chk.size), Failed} :
            LET calls == << [fn |-> "GetDiskByName", name |-> req.Name,
                             size |-> chk.size, err |-> out.err] >>
                fsType == MapGet(req.Parameters, FsTypeKey)
                o == CreateVolumeOpts(req, chk.size)
            IN  IF out.err # "nil" /\ LookupCode(out.err) # ""
                THEN /\ last' = Returned("CreateVolume", req, LookupCode(out.err),
                                         out.err, calls, NoVolume, VolReplayOf(req.Name, chk.size))
                     /\ UNCHANGED <<disks, nextVol, snaps, nextSnap, pc, call, okVol, okSnap, attached>>
                ELSE IF DiskFound(out)
                THEN /\ last' = Returned("CreateVolume", req, "OK", "", calls,
                                         newCreateVolumeResponse(out.disk, fsType),
                                         VolReplayOf(req.Name, chk.size))
                     /\ okVol' = [valid |-> TRUE, name |-> req.Name,
                                  size |-> chk.size, id |-> out.disk.id]
                     /\ UNCHANGED <<disks, nextVol, snaps, nextSnap, pc, call, okSnap, attached>>
                ELSE IF o.msg # ""
                THEN /\ last' = Returned("CreateVolume", req, "InvalidArgument",
                                         o.msg, calls, NoVolume, VolReplayOf(req.Name, chk.size))
                     /\ UNCHANGED <<disks, nextVol, snaps, nextSnap, pc, call, okVol, okSnap, attached>>
                ELSE /\ nextVol + Cardinality({q \in Procs : pc[q] = "create"})
                            <= MaxVols
                     /\ pc' = [pc EXCEPT ![p] = "create"]
                     /\ call' = [call EXCEPT ![p] =
                                    [req |-> req, size |-> chk.size, opts |-> o.opts,
                                     calls |-> calls,
                                     replayOf |-> VolReplayOf(req.Name, chk.size),
                                     clean |-> TRUE]]
                     /\ UNCHANGED <<disks, nextVol, snaps, nextSnap, okVol, okSnap, attached, last>>

(***************************************************************************)
(* CreateVolume, lines 142-147: the create-disk call and the response      *)
(***************************************************************************)
CreateVolumeCreate(p) ==
    /\ pc[p] = "create"
    /\ LET c == call[p]
           fsType == MapGet(c.req.Parameters, FsTypeKey)
           entry(err) == [fn |-> "CreateDisk", name |-> c.req.Name,
                          size |-> c.opts.CapacityBytes, opts |-> c.opts,
                          err |-> err]
       IN  \E ok \in BOOLEAN, z \in Zones :
           /\ (c.opts.AvailabilityZone # "" \/ ~ok) => z = "a"
           /\ IF ok
              THEN LET disk == CreateDisk(c.req.Name, c.opts, z)
                   IN  /\ disks' = disks \cup {disk}
                       /\ nextVol' = nextVol + 1
                       /\ okVol' = IF c.clean
                                   THEN [valid |-> TRUE, name |-> c.req.Name,
                                         size |-> c.size, id |-> disk.id]
                                   ELSE NoOk
                       /\ last' = Returned("CreateVolume", c.req, "OK", "",
                                           Append(c.calls, entry("nil")),
                                           newCreateVolumeResponse(disk, fsType),
                                           c.replayOf)
                       /\ call' = [Disturb(p) EXCEPT ![p] = NoCall]
              ELSE /\ last' = Returned("CreateVolume", c.req, "Internal",
                                       "Could not create volume",
                                       Append(c.calls, entry("ErrOther")),
                                       NoVolume, c.replayOf)
                   /\ call' = [call EXCEPT ![p] = NoCall]
                   /\ UNCHANGED <<disks, nextVol, okVol>>
    /\ pc' = [pc EXCEPT ![p] = "ready"]
    /\ UNCHANGED <<snaps, nextSnap, okSnap, attached>>

(***************************************************************************)
(* DeleteVolume, lines 150-166                                             *)
(***************************************************************************)
\* a slip: not-found passed on as an error
DeleteCode_NotFoundIsError(err) ==
    IF err # "nil"
    THEN IF err = "ErrNotFound" THEN "NotFound" ELSE "Internal"
    ELSE "OK"

\* lines 157-165: the class of the response for the backend's answer
DeleteCode(err) ==
    IF err # "nil"
    THEN IF err = "ErrNotFound" THEN "OK" ELSE "Internal"
    ELSE "OK"

DeleteVolume(volumeID) ==
    IF volumeID = ""
    THEN /\ last' = Returned("DeleteVolume", [VolumeId |-> volumeID],
                             "InvalidArgument", "Volume ID not provided", << >>,
                             [existed |-> FALSE], "")
         /\ UNCHANGED <<disks, nextVol, snaps, nextSnap, pc, call, okVol, okSnap, attached>>
    ELSE \E err \in {DeleteDisk(volumeID), "ErrOther"} :
         /\ last' = Returned("DeleteVolume", [VolumeId |-> volumeID],
                             DeleteCode(err), err,
                             << [fn |-> "DeleteDisk", id |-> volumeID, err |-> err] >>,
                             [existed |-> \E d \in disks : d.id = volumeID], "")
         /\ IF err = "nil"
            THEN /\ disks' = {d \in disks : d.id # volumeID}
                 /\ okVol' = NoOk
                 /\ call' = Disturb("")
            ELSE UNCHANGED <<disks, okVol, call>>
         /\ UNCHANGED <<nextVol, snaps, nextSnap, pc, okSnap, attached>>

(***************************************************************************)
(* ValidateVolumeCapabilities, lines 260-286                               *)
(***************************************************************************)
\* lines 272-277: the error class for the lookup by id, "" for none
GetDiskCode(err) ==
    IF err # "nil"
    THEN IF err = "ErrNotFound" THEN "NotFound" ELSE "Internal"
    ELSE ""

\* lines 279-285: the confirmation of the response; absent = not confirmed
Confirmed(volCaps) ==
    IF isValidVolumeCapabilities(volCaps)
    THEN [present |-> TRUE, VolumeCapabilities |-> volCaps]
    ELSE [present |-> FALSE, VolumeCapabilities |-> << >>]

NotConfirmed == [present |-> FALSE, VolumeCapabilities |-> << >>]

ValidateVolumeCapabilities(volumeID, volCaps) ==
    LET req == [VolumeId |-> volumeID, VolumeCapabilities |-> volCaps] IN
    /\ IF volumeID = ""
       THEN last' = Returned("ValidateVolumeCapabilities", req, "InvalidArgument",
                             "Volume ID not provided", << >>, NotConfirmed, "")
       ELSE IF Len(volCaps) = 0
       THEN last' = Returned("ValidateVolumeCapabilities", req, "InvalidArgument",
                             "Volume capabilities not provided", << >>,
                             NotConfirmed, "")
       ELSE \E out \in {GetDiskByID(volumeID), Failed} :
            LET calls == << [fn |-> "GetDiskByID", id |-> volumeID,
                             err |-> out.err] >>
            IN  IF GetDiskCode(out.err) # ""
                THEN last' = Returned("ValidateVolumeCapabilities", req,
                                      GetDiskCode(out.err), out.err, calls,
                                      NotConfirmed, "")
                ELSE last' = Returned("ValidateVolumeCapabilities", req, "OK", "",
                                      calls, Confirmed(volCaps), "")
    /\ UNCHANGED <<disks, nextVol, snaps, nextSnap, pc, call, okVol, okSnap, attached>>

(***************************************************************************)
(* CreateSnapshot, lines 307-330: the request checks and the lookup        *)
(***************************************************************************)
\* a slip: the source volume id is not checked
CreateSnapshotCheck_NoSourceCheck(req) ==
    IF req.Name = "" THEN "Snapshot name not provided"
    ELSE ""

\* lines 309-317
CreateSnapshotCheck(req) ==
    IF req.Name = "" THEN "Snapshot name not provided"
    ELSE IF req.SourceVolumeId = "" THEN "Snapshot volume source ID not provided"
    ELSE ""

\* line 319: a lookup error that ends the call
SnapshotLookupFails(err) == err # "nil" /\ err # "ErrNotFound"

\* a slip: a snapshot that is not ready yet is taken for absent
SnapshotFound_OnlyReady(out) == out.err = "nil" /\ out.snapshot.ready

\* line 323: the lookup returned a snapshot (snapshot != nil)
SnapshotFound(out) == out.err = "nil"

\* a slip: the source volume of the snapshot found is not compared
SnapshotConflict_Never(snapshot, volumeID) == FALSE

\* line 324: the name is held by a snapshot of another volume
SnapshotConflict(snapshot, volumeID) == snapshot.src # volumeID

\* lines 402-416; err: the creation time does not convert
newCreateSnapshotResponse(snapshot) ==
    IF ~snapshot.timeOk
    THEN [err |-> TRUE, snap |-> NoSnap]
    ELSE [err |-> FALSE,
          snap |-> [SnapshotId |-> snapshot.id, SourceVolumeId |-> snapshot.src,
                    ReadyToUse |-> snapshot.ready]]

\* the class of an error returned as it is, with no status of its own
RawErrorCode == "Unknown"

CreateSnapshotLookup(p, req) ==
    LET msg == CreateSnapshotCheck(req) IN
    /\ HandlerStarts(p, req.Name)
    /\ IF msg # ""
       THEN /\ last' = Returned("CreateSnapshot", req, "InvalidArgument", msg,
                                << >>, NoSnap, "")
            /\ UNCHANGED <<pc, call, okSnap>>
       ELSE \E out \in {GetSnapshotByName(req.Name), FailedSnap} :
            LET calls == << [fn |-> "GetSnapshotByName", name |-> req.Name,
                             err |-> out.err] >>
                resp == newCreateSnapshotResponse(out.snapshot)
                replayOf == SnapReplayOf(req.Name, req.SourceVolumeId)
            IN  IF SnapshotLookupFails(out.err)
                THEN /\ last' = Returned("CreateSnapshot", req, RawErrorCode,
                                         out.err, calls, NoSnap, replayOf)
                     /\ UNCHANGED <<pc, call, okSnap>>
                ELSE IF SnapshotFound(out)
                THEN IF SnapshotConflict(out.snapshot, req.SourceVolumeId)
                     THEN /\ last' = Returned("CreateSnapshot", req, "AlreadyExists",
                                              "already exists for different volume",
                                              calls, NoSnap, replayOf)
                          /\ UNCHANGED <<pc, call, okSnap>>
                     ELSE IF resp.err
                     THEN /\ last' = Returned("CreateSnapshot", req, RawErrorCode,
                                              "timestamp", calls, NoSnap, replayOf)
                          /\ UNCHANGED <<pc, call, okSnap>>
                     ELSE /\ last' = Returned("CreateSnapshot", req, "OK", "", calls,
                                              resp.snap, replayOf)
                          /\ okSnap' = [valid |-> TRUE, name |-> req.Name,
                                        src |-> req.SourceVolumeId,
                                        id |-> out.snapshot.id]
                          /\ UNCHANGED <<pc, call>>
                ELSE /\ nextSnap + Cardinality({q \in Procs : pc[q] = "snapcreate"})
                            <= MaxSnaps
                     /\ pc' = [pc EXCEPT ![p] = "snapcreate"]
                     /\ call' = [call EXCEPT ![p] =
                                    [req |-> req, calls |-> calls,
                                     replayOf |-> replayOf, clean |-> TRUE]]
                     /\ UNCHANGED <<okSnap, last>>
    /\ UNCHANGED <<disks, nextVol, snaps, nextSnap, okVol, attached>>

(***************************************************************************)
(* CreateSnapshot, lines 331-339: the create call and the response         *)
(***************************************************************************)
CreateSnapshotCreate(p) ==
    /\ pc[p] = "snapcreate"
    /\ LET c == call[p]
           opts == [name |-> c.req.Name]
           entry(err) == [fn |-> "CreateSnapshot", name |-> c.req.Name,
                          src |-> c.req.SourceVolumeId, err |-> err]
       IN  \E ok \in BOOLEAN, ready \in BOOLEAN, timeOk \in BOOLEAN :
           /\ ~ok => (ready /\ timeOk)
           /\ IF ok
              THEN LET snapshot == CreateSnapshot(c.req.SourceVolumeId, opts,
                                                  ready, timeOk)
                       resp == newCreateSnapshotResponse(snapshot)
                   IN  /\ snaps' = snaps \cup {snapshot}
                       /\ nextSnap' = nextSnap + 1
                       /\ okSnap' = IF c.clean /\ ~resp.err
                                    THEN [valid |-> TRUE, name |-> c.req.Name,
                                          src |-> c.req.SourceVolumeId,
                                          id |-> snapshot.id]
                                    ELSE NoOkSnap
                       /\ last' = Returned("CreateSnapshot", c.req,
                                           IF resp.err THEN RawErrorCode ELSE "OK",
                                           IF resp.err THEN "timestamp" ELSE "",
                                           Append(c.calls, entry("nil")),
                                           resp.snap, c.replayOf)
                       /\ call' = [Disturb(p) EXCEPT ![p] = NoCall]
              ELSE /\ last' = Returned("CreateSnapshot", c.req, "Internal",
                                       "Could not create snapshot",
                                       Append(c.calls, entry("ErrOther")),
                                       NoSnap, c.replayOf)
                   /\ call' = [call EXCEPT ![p] = NoCall]
                   /\ UNCHANGED <<snaps, nextSnap, okSnap>>
    /\ pc' = [pc EXCEPT ![p] = "ready"]
    /\ UNCHANGED <<disks, nextVol, okVol, attached>>

(***************************************************************************)
(* DeleteSnapshot, lines 342-358                                           *)
(***************************************************************************)
\* lines 349-357: the class of the response for the backend's answer
DeleteSnapshotCode(err) ==
    IF err # "nil"
    THEN IF err = "ErrNotFound" THEN "OK" ELSE "Internal"
    ELSE "OK"

DeleteSnapshot(snapshotID) ==
    IF snapshotID = ""
    THEN /\ last' = Returned("DeleteSnapshot", [SnapshotId |-> snapshotID],
                             "InvalidArgument", "Snapshot ID not provided", << >>,
                             [existed |-> FALSE], "")
         /\ UNCHANGED <<disks, nextVol, snaps, nextSnap, pc, call, okVol, okSnap, attached>>
    ELSE \E err \in {DeleteSnapshotById(snapshotID), "ErrOther"} :
         /\ last' = Returned("DeleteSnapshot", [SnapshotId |-> snapshotID],
                             DeleteSnapshotCode(err), err,
                             << [fn |-> "DeleteSnapshot", id |-> snapshotID,
                                 err |-> err] >>,
                             [existed |-> \E x \in snaps : x.id = snapshotID], "")
         /\ IF err = "nil"
            THEN /\ snaps' = {x \in snaps : x.id # snapshotID}
                 /\ okSnap' = NoOkSnap
                 /\ call' = Disturb("")
            ELSE UNCHANGED <<snaps, okSnap, call>>
         /\ UNCHANGED <<disks, nextVol, nextSnap, pc, okVol, attached>>

\* the backend finishes materializing a snapshot
SnapshotCompletes ==
    \E x \in snaps :
        /\ ~x.ready
        /\ snaps' = (snaps \ {x}) \cup {[x EXCEPT !.ready = TRUE]}
        /\ UNCHANGED <<disks, nextVol, nextSnap, pc, call, okVol, okSnap, attached, last>>

(***************************************************************************)
(* ControllerPublishVolume, lines 168-199: the request checks and the two  *)
(* existence lookups                                                       *)
(***************************************************************************)
NoCapability == [present |-> FALSE, mode |-> ""]
Capability(mode) == [present |-> TRUE, mode |-> mode]
NoPublish == [PublishContext |-> << >>]

\* lines 170-187; "" when the request passes
ControllerPublishVolumeCheck(req) ==
    IF req.VolumeId = "" THEN "Volume ID not provided"
    ELSE IF req.NodeId = "" THEN "Node ID not provided"
    ELSE IF ~req.VolumeCapability.present THEN "Volume capability not provided"
    ELSE IF ~isValidVolumeCapabilities(<< [mode |-> req.VolumeCapability.mode] >>)
    THEN "Volume capability not supported"
    ELSE ""

\* a slip: a volume that is not found does not end the call
PublishDiskCode_NotFoundGoesOn(err) ==
    IF err # "nil"
    THEN IF err = "ErrNotFound" THEN "" ELSE "Internal"
    ELSE ""

\* lines 192-197: the error class for the lookup by id, "" for none
PublishDiskCode(err) ==
    IF err # "nil"
    THEN IF err = "ErrNotFound" THEN "NotFound" ELSE "Internal"
    ELSE ""

ControllerPublishVolumeLookup(p, req) ==
    LET msg == ControllerPublishVolumeCheck(req)
        exists == IsExistInstance(req.NodeId)
        first == << [fn |-> "IsExistInstance", node |-> req.NodeId,
                     ok |-> exists, err |-> "nil"] >>
    IN
    /\ pc[p] = "ready"
    /\ IF msg # ""
       THEN /\ last' = Returned("ControllerPublishVolume", req,
                                "InvalidArgument", msg, << >>, NoPublish, "")
            /\ UNCHANGED <<pc, call>>
       ELSE IF ~exists
       THEN /\ last' = Returned("ControllerPublishVolume", req, "NotFound",
                                "Instance not found", first, NoPublish, "")
            /\ UNCHANGED <<pc, call>>
       ELSE \E out \in {GetDiskByID(req.VolumeId), Failed} :
            LET calls == Append(first, [fn |-> "GetDiskByID",
                                        id |-> req.VolumeId, err |-> out.err])
            IN  IF PublishDiskCode(out.err) # ""
                THEN /\ last' = Returned("ControllerPublishVolume", req,
                                         PublishDiskCode(out.err), out.err,
                                         calls, NoPublish, "")
                     /\ UNCHANGED <<pc, call>>
                ELSE /\ pc' = [pc EXCEPT ![p] = "attach"]
                     /\ call' = [call EXCEPT ![p] =
                                    [req |-> req, calls |-> calls,
                                     clean |-> TRUE]]
                     /\ UNCHANGED last
    /\ UNCHANGED <<disks, nextVol, snaps, nextSnap, okVol, okSnap, attached>>

(***************************************************************************)
(* ControllerPublishVolume, lines 201-211: the attach call and the         *)
(* response                                                                *)
(***************************************************************************)
\* a slip: a volume attached elsewhere reported as any other failure
AttachCode_ConflictIsInternal(err) ==
    IF err # "nil" THEN "Internal" ELSE "OK"

\* lines 202-207: the class of the response for the backend's answer
AttachCode(err) ==
    IF err # "nil"
    THEN IF err = "ErrAlreadyExists" THEN "AlreadyExists" ELSE "Internal"
    ELSE "OK"

\* lines 210-211
newControllerPublishVolumeResponse(devicePath) ==
    [PublishContext |-> (DevicePathKey :> devicePath)]

ControllerPublishVolumeAttach(p) ==
    /\ pc[p] = "attach"
    /\ LET c == call[p]
           volumeID == c.req.VolumeId
           nodeID == c.req.NodeId
       IN  \E dev \in Devices :
           \E out \in {AttachDisk(volumeID, nodeID, dev), FailedAttach} :
           LET calls == Append(c.calls,
                               [fn |-> "AttachDisk", id |-> volumeID,
                                node |-> nodeID, err |-> out.err,
                                devicePath |-> out.devicePath])
           IN  /\ attached' = IF out.err = "nil"
                              THEN attached \cup {[vol |-> volumeID,
                                                   node |-> nodeID,
                                                   dev |-> out.devicePath]}
                              ELSE attached
               /\ last' = Returned("ControllerPublishVolume", c.req,
                                   AttachCode(out.err), out.err, calls,
                                   IF AttachCode(out.err) = "OK"
                                   THEN newControllerPublishVolumeResponse(
                                            out.devicePath)
                                   ELSE NoPublish, "")
    /\ pc' = [pc EXCEPT ![p] = "ready"]
    /\ call' = [call EXCEPT ![p] = NoCall]
    /\ UNCHANGED <<disks, nextVol, snaps, nextSnap, okVol, okSnap>>

(***************************************************************************)
(* ControllerUnpublishVolume, lines 214-232                                *)
(***************************************************************************)
\* lines 216-224; "" when the request passes
ControllerUnpublishVolumeCheck(req) ==
    IF req.VolumeId = "" THEN "Volume ID not provided"
    ELSE IF req.NodeId = "" THEN "Node ID not provided"
    ELSE ""

ControllerUnpublishVolume(volumeID, nodeID) ==
    LET req == [VolumeId |-> volumeID, NodeId |-> nodeID]
        msg == ControllerUnpublishVolumeCheck(req)
    IN
    /\ IF msg # ""
       THEN /\ last' = Returned("ControllerUnpublishVolume", req,
                                "InvalidArgument", msg, << >>,
                                [existed |-> FALSE], "")
            /\ UNCHANGED attached
       ELSE \E ok \in BOOLEAN :
            LET err == IF ok THEN "nil" ELSE "ErrOther"
                was == \E a \in attached : a.vol = volumeID /\ a.node = nodeID
            IN  /\ last' = Returned("ControllerUnpublishVolume", req,
                                    IF ok THEN "OK" ELSE "Internal", err,
                                    << [fn |-> "DetachDisk", id |-> volumeID,
                                        node |-> nodeID, err |-> err] >>,
                                    [existed |-> was], "")
                /\ attached' = IF ok THEN DetachDisk(volumeID, nodeID)
                               ELSE attached
    /\ UNCHANGED <<disks, nextVol, snaps, nextSnap, pc, call, okVol, okSnap>>

CreateSnapshotRequests ==
    {[Name |-> n, SourceVolumeId |-> v] :
        n \in {"", "s1"}, v \in {"", VolId(1), VolId(2)}}

Init ==
    /\ disks = {}
    /\ nextVol = 1
    /\ pc = [p \in Procs |-> "ready"]
    /\ call = [p \in Procs |-> NoCall]
    /\ okVol = NoOk
    /\ snaps = {}
    /\ nextSnap = 1
    /\ okSnap = NoOkSnap
    /\ attached = {}
    /\ last = Returned("none", [VolumeId |-> ""], "OK", "", << >>,
                       [existed |-> FALSE], "")

(***************************************************************************)
(* Specifications.  The volume handlers and the snapshot handlers share no *)
(* state, so each kind is explored under concurrent callers on its own     *)
(* (Spec, SnapSpec); AllSpec runs every handler side by side for one       *)
(* caller, and RichSpec gives one caller every request of the model.       *)
(***************************************************************************)
SomeCreateVolumeRequests ==
    {CreateVolumeRequest(n, c, OneWriter, NoRequirement, EmptyMap, NoSource) :
        n \in {"v1", "v2"}, c \in {CapRange(1, 0), CapRange(GiB + 1, 0)}}
    \cup {CreateVolumeRequest("", NoRange, OneWriter, NoRequirement, EmptyMap, NoSource)}

Next ==
    \/ \E p \in Procs, req \in SomeCreateVolumeRequests : CreateVolumeLookup(p, req)
    \/ \E p \in Procs : CreateVolumeCreate(p)
    \/ \E volumeID \in {""} \cup VolIds : DeleteVolume(volumeID)
    \/ \E volumeID \in {""} \cup VolIds, volCaps \in {<< >>, OneWriter} :
          ValidateVolumeCapabilities(volumeID, volCaps)

Spec == Init /\ [][Next]_vars

SnapNext ==
    \/ \E p \in Procs, req \in CreateSnapshotRequests : CreateSnapshotLookup(p, req)
    \/ \E p \in Procs : CreateSnapshotCreate(p)
    \/ \E snapshotID \in {""} \cup SnapIds : DeleteSnapshot(snapshotID)
    \/ SnapshotCompletes

SnapSpec == Init /\ [][SnapNext]_vars

FewCreateVolumeRequests ==
    {CreateVolumeRequest(n, CapRange(1, 0), OneWriter, NoRequirement, EmptyMap,
                         NoSource) : n \in {"", "v1"}}
    \cup {CreateVolumeRequest("v1", CapRange(1, 0), << >>, NoRequirement,
                              EmptyMap, NoSource)}
FewControllerPublishVolumeRequests ==
    {[VolumeId |-> v, NodeId |-> n, VolumeCapability |-> c] :
        v \in {"", VolId(1)}, n \in {"", "i-1"},
        c \in {NoCapability, Capability(SINGLE_NODE_WRITER)}}
FewCreateSnapshotRequests ==
    {[Name |-> n, SourceVolumeId |-> v] : n \in {"", "s1"}, v \in {"", VolId(1)}}

AllNext ==
    \/ \E req \in FewCreateVolumeRequests : CreateVolumeLookup("p1", req)
    \/ CreateVolumeCreate("p1")
    \/ \E volumeID \in {""} \cup VolIds : DeleteVolume(volumeID)
    \/ \E volumeID \in {""} \cup VolIds, volCaps \in {<< >>, OneWriter} :
          ValidateVolumeCapabilities(volumeID, volCaps)
    \/ \E req \in FewCreateSnapshotRequests : CreateSnapshotLookup("p1", req)
    \/ CreateSnapshotCreate("p1")
    \/ \E snapshotID \in {""} \cup SnapIds : DeleteSnapshot(snapshotID)
    \/ SnapshotCompletes
    \/ \E req \in FewControllerPublishVolumeRequests :
          ControllerPublishVolumeLookup("p1", req)
    \/ ControllerPublishVolumeAttach("p1")
    \/ \E volumeID \in {"", VolId(1)}, nodeID \in {"", "i-1"} :
          ControllerUnpublishVolume(volumeID, nodeID)

AllSpec == Init /\ [][AllNext]_vars

\* volumes come and go under one caller, who attaches and detaches them
ControllerPublishVolumeRequests ==
    {[VolumeId |-> v, NodeId |-> n, VolumeCapability |-> c] :
        v \in {""} \cup VolIds,
        n \in {"", "i-9"} \cup Instances,
        c \in {NoCapability} \cup {Capability(m) : m \in Modes}}

PublishNext ==
    \/ \E req \in FewCreateVolumeRequests : CreateVolumeLookup("p1", req)
    \/ CreateVolumeCreate("p1")
    \/ \E volumeID \in VolIds : DeleteVolume(volumeID)
    \/ \E req \in ControllerPublishVolumeRequests :
          ControllerPublishVolumeLookup("p1", req)
    \/ ControllerPublishVolumeAttach("p1")
    \/ \E volumeID \in VolIds, nodeID \in Instances :
          ControllerUnpublishVolume(volumeID, nodeID)

PublishSpec == Init /\ [][PublishNext]_vars

RichNext ==
    \/ \E req \in CreateVolumeRequests : CreateVolumeLookup("p1", req)
    \/ CreateVolumeCreate("p1")
    \/ \E volumeID \in {""} \cup VolIds : DeleteVolume(volumeID)

RichSpec == Init /\ [][RichNext]_vars

\* volumes come and go under one caller; every capability list is validated
ValidateNext ==
    \/ \E req \in FewCreateVolumeRequests : CreateVolumeLookup("p1", req)
    \/ CreateVolumeCreate("p1")
    \/ \E volumeID \in {""} \cup VolIds : DeleteVolume(volumeID)
    \/ \E volumeID \in {""} \cup VolIds, volCaps \in CapLists :
          ValidateVolumeCapabilities(volumeID, volCaps)

ValidateSpec == Init /\ [][ValidateNext]_vars

\* one CreateVolume on the empty backend, for every topology requirement
TopologyRequests ==
    {CreateVolumeRequest("v1", CapRange(1, 0), OneWriter, t, EmptyMap, NoSource) :
        t \in Requirements}

TopologyNext ==
    \/ /\ last.op = "none"
       /\ \E req \in TopologyRequests : CreateVolumeLookup("p1", req)
    \/ CreateVolumeCreate("p1")

TopologySpec == Init /\ [][TopologyNext]_vars

(***************************************************************************)
(* What a returned call shows                                              *)
(***************************************************************************)
Issued(fn) == \E i \in 1..Len(last.calls) : last.calls[i].fn = fn
\* the backend answered every call made: none failed with an error of its own
Answered(r) == \A i \in 1..Len(r.calls) : r.calls[i].err # "ErrOther"
NameIsUnique(name) == Cardinality(DisksByName(name)) = 1

(***************************************************************************)
(* C1.  A CreateVolume that repeats the name and the normalized size of a  *)
(* CreateVolume that succeeded, with no backend change by anyone else      *)
(* since that call began and with its lookup answered, succeeds, returns   *)
(* the identifier the first call returned and issues no create-disk call.  *)
(***************************************************************************)
C1_ReplayReturnsSameVolume ==
    (/\ last.op = "CreateVolume"
     /\ last.replayOf # ""
     /\ CreateVolumeCheck(last.req).msg = ""
     /\ Answered(last))
    => (/\ last.code = "OK"
        /\ last.res.VolumeId = last.replayOf
        /\ ~Issued("CreateDisk"))

C1_Witness ==
    /\ last.op = "CreateVolume"
    /\ last.replayOf # ""
    /\ last.code = "OK"
    /\ last.res.VolumeId = last.replayOf
    /\ Len(last.calls) = 1
    /\ \E d \in disks : d.id = last.replayOf /\ d.name = last.req.Name

(***************************************************************************)
(* C2.  A CreateVolume whose name is held by one live volume of another    *)
(* size than the request's normalized size, and whose lookup is answered,  *)
(* fails with already-exists, issues no create-disk call and leaves the    *)
(* backend's volumes as they are.                                          *)
(***************************************************************************)
HeldWithOtherSize(req) ==
    /\ CreateVolumeCheck(req).msg = ""
    /\ NameIsUnique(req.Name)
    /\ \E d \in DisksByName(req.Name) :
          GiBToBytes(d.gib) # CreateVolumeCheck(req).size

C2_OtherSizeIsConflict ==
    [][\A p \in Procs, req \in SomeCreateVolumeRequests :
          (CreateVolumeLookup(p, req) /\ HeldWithOtherSize(req) /\ Answered(last'))
          => (/\ last'.code = "AlreadyExists"
              /\ \A i \in 1..Len(last'.calls) : last'.calls[i].fn # "CreateDisk"
              /\ pc'[p] = "ready"
              /\ disks' = disks)]_vars

C2_Witness ==
    /\ last.op = "CreateVolume"
    /\ last.code = "AlreadyExists"
    /\ HeldWithOtherSize(last.req)
    /\ ~Issued("CreateDisk")

(***************************************************************************)
(* C3.  The driver does not serialize CreateVolume calls by name: while    *)
(* one call is between its lookup (absent) and its create-disk call,       *)
(* another caller's call for the same name can run its lookup, get absent  *)
(* too and go on to create; and a call that has reached create-disk can    *)
(* always create, whatever volumes hold its name by then.  So the backend  *)
(* can end with two live volumes of one name (C3_Witness).                 *)
(***************************************************************************)
C3_NoSerializationByName ==
    /\ \A p \in Procs, q \in Procs, req \in SomeCreateVolumeRequests :
          (/\ p # q
           /\ pc[p] = "ready"
           /\ pc[q] = "create"
           /\ call[q].req.Name = req.Name
           /\ CreateVolumeCheck(req).msg = ""
           /\ DisksByName(req.Name) = {}
           /\ nextVol + Cardinality({x \in Procs : pc[x] = "create"}) <= MaxVols)
          => ENABLED (CreateVolumeLookup(p, req) /\ pc'[p] = "create")
    /\ \A p \in Procs :
          pc[p] = "create"
          => ENABLED (/\ CreateVolumeCreate(p)
                      /\ Cardinality({d \in disks' : d.name = call[p].req.Name})
                           = Cardinality(DisksByName(call[p].req.Name)) + 1)

C3_Witness ==
    /\ \E d1 \in disks, d2 \in disks : d1.id # d2.id /\ d1.name = d2.name
    /\ last.op = "CreateVolume"
    /\ last.code = "OK"
    /\ Issued("CreateDisk")
    /\ Cardinality(DisksByName(last.req.Name)) = 2
    /\ \A p \in Procs : pc[p] = "ready"

(***************************************************************************)
(* C4.  DeleteVolume and DeleteSnapshot with a non-empty identifier return *)
(* success when the backend deletes the resource and when it reports       *)
(* not-found; any other backend failure is an internal error.  So a delete *)
(* of an identifier that is not live (removed before, or never assigned)   *)
(* succeeds whenever the backend answers it.                               *)
(***************************************************************************)
C4_DeleteIsIdempotent ==
    (/\ last.op \in {"DeleteVolume", "DeleteSnapshot"}
     /\ Len(last.calls) > 0)
    => LET err == last.calls[1].err
       IN  /\ err \in {"nil", "ErrNotFound"} => last.code = "OK"
           /\ err \notin {"nil", "ErrNotFound"} => last.code = "Internal"
           /\ (~last.res.existed /\ Answered(last))
                  => (err = "ErrNotFound" /\ last.code = "OK")
           /\ (last.op = "DeleteVolume" /\ last.code = "OK")
                  => ~\E d \in disks : d.id = last.req.VolumeId
           /\ (last.op = "DeleteSnapshot" /\ last.code = "OK")
                  => ~\E x \in snaps : x.id = last.req.SnapshotId

\* a delete repeated for a volume and for a snapshot that were live and
\* have been removed
C4_Witness ==
    /\ last.op \in {"DeleteVolume", "DeleteSnapshot"}
    /\ last.code = "OK"
    /\ Len(last.calls) = 1
    /\ last.calls[1].err = "ErrNotFound"
    /\ nextVol > 1 /\ disks = {}
    /\ nextSnap > 1 /\ snaps = {}
    /\ \/ last.op = "DeleteVolume" /\ last.req.VolumeId = VolId(1)
       \/ last.op = "DeleteSnapshot" /\ last.req.SnapshotId = SnapId(1)

(***************************************************************************)
(* C5.  A CreateSnapshot that repeats the name and the source volume of a  *)
(* CreateSnapshot that succeeded, with no change of the backend's          *)
(* snapshots by anyone else since that call began and with its lookup      *)
(* answered, succeeds, returns the identifier the first call returned and  *)
(* issues no create-snapshot call, ready or not: the readiness flag is     *)
(* only copied into the response.                                          *)
(***************************************************************************)
C5_SnapshotReplayReturnsSame ==
    (/\ last.op = "CreateSnapshot"
     /\ last.replayOf # ""
     /\ CreateSnapshotCheck(last.req) = ""
     /\ Answered(last))
    => (/\ last.code = "OK"
        /\ last.res.SnapshotId = last.replayOf
        /\ last.res.SourceVolumeId = last.req.SourceVolumeId
        /\ ~Issued("CreateSnapshot")
        /\ \E x \in snaps : x.id = last.replayOf
                            /\ (last.res.ReadyToUse => x.ready))

\* the replay of a snapshot that is not ready yet
C5_Witness ==
    /\ last.op = "CreateSnapshot"
    /\ last.replayOf # ""
    /\ last.code = "OK"
    /\ last.res.SnapshotId = last.replayOf
    /\ ~last.res.ReadyToUse
    /\ Len(last.calls) = 1

(***************************************************************************)
(* C6.  A CreateSnapshot whose name is held by one live snapshot of        *)
(* another source volume, and whose lookup is answered, fails with         *)
(* already-exists and issues no create-snapshot call.                      *)
(***************************************************************************)
HeldForOtherVolume(req) ==
    /\ CreateSnapshotCheck(req) = ""
    /\ Cardinality(SnapshotsByName(req.Name)) = 1
    /\ \E x \in SnapshotsByName(req.Name) : x.src # req.SourceVolumeId

C6_OtherSourceIsConflict ==
    [][\A p \in Procs, req \in CreateSnapshotRequests :
          (CreateSnapshotLookup(p, req) /\ HeldForOtherVolume(req)
             /\ Answered(last'))
          => (/\ last'.code = "AlreadyExists"
              /\ \A i \in 1..Len(last'.calls) : last'.calls[i].fn # "CreateSnapshot"
              /\ pc'[p] = "ready"
              /\ snaps' = snaps)]_vars

C6_Witness ==
    /\ last.op = "CreateSnapshot"
    /\ last.code = "AlreadyExists"
    /\ HeldForOtherVolume(last.req)
    /\ ~Issued("CreateSnapshot")

(***************************************************************************)
(* C7.  As claimed: every request with required bytes = limit bytes > 0    *)
(* passes the capacity check.                                              *)
(***************************************************************************)
ExceedsLimitMsg == "After round-up, volume size exceeds the limit specified"

C7_EveryEqualLimitAccepted ==
    (/\ last.op = "CreateVolume"
     /\ last.req.CapacityRange.present
     /\ last.req.CapacityRange.RequiredBytes = last.req.CapacityRange.LimitBytes
     /\ last.req.CapacityRange.RequiredBytes > 0)
    => last.msg # ExceedsLimitMsg

(***************************************************************************)
(* C7, amended.  A request with required bytes = limit bytes > 0 passes    *)
(* the capacity check when that value is a multiple of the allocation      *)
(* granularity; for any other value the rounded-up size exceeds the limit  *)
(* and the request (its name given) is rejected with the exceeds-limit     *)
(* invalid-request error before any backend call.                          *)
(***************************************************************************)
C7_EqualLimitAcceptedIffMultiple ==
    (/\ last.op = "CreateVolume"
     /\ last.req.CapacityRange.present
     /\ last.req.CapacityRange.RequiredBytes = last.req.CapacityRange.LimitBytes
     /\ last.req.CapacityRange.RequiredBytes > 0)
    => LET required == last.req.CapacityRange.RequiredBytes
       IN  /\ required % GiB = 0 => last.msg # ExceedsLimitMsg
           /\ (required % GiB # 0 /\ last.req.Name # "")
                 => (/\ last.msg = ExceedsLimitMsg
                     /\ last.code = "InvalidArgument"
                     /\ last.calls = << >>)

C7_Witness ==
    /\ last.op = "CreateVolume"
    /\ last.req.CapacityRange.present
    /\ last.req.CapacityRange.RequiredBytes = last.req.CapacityRange.LimitBytes
    /\ last.req.CapacityRange.RequiredBytes > 0
    /\ last.code = "OK"
    /\ Issued("CreateDisk")
    /\ last.res.CapacityBytes = last.req.CapacityRange.LimitBytes

(***************************************************************************)
(* C8.  Every size CreateVolume passes to the backend, in the lookup and   *)
(* in create-disk, is the smallest multiple of the allocation granularity  *)
(* that is >= the required bytes, and <= the limit when there is one; the  *)
(* default size when there is no capacity range.  A request whose          *)
(* rounded-up size exceeds its limit is rejected as invalid with no        *)
(* backend call.                                                           *)
(***************************************************************************)
Multiples == {k * GiB : k \in 0..(MaxBytes + 1)}
SmallestMultiple(n) ==
    CHOOSE m \in Multiples : m >= n /\ \A k \in Multiples : k >= n => m <= k
SizeWanted(req) ==
    IF req.CapacityRange.present
    THEN SmallestMultiple(req.CapacityRange.RequiredBytes)
    ELSE DefaultVolumeSize
WithinLimit(req, size) ==
    (req.CapacityRange.present /\ req.CapacityRange.LimitBytes > 0)
        => size <= req.CapacityRange.LimitBytes

C8_SizePassedToBackend ==
    /\ last.op = "CreateVolume"
       => /\ \A i \in 1..Len(last.calls) :
                /\ last.calls[i].size = SizeWanted(last.req)
                /\ WithinLimit(last.req, last.calls[i].size)
          /\ ~WithinLimit(last.req, SizeWanted(last.req))
                => (last.code = "InvalidArgument" /\ last.calls = << >>)
          /\ Issued("CreateDisk")
                => last.calls[2].opts.CapacityBytes = SizeWanted(last.req)
    /\ \A p \in Procs :
          pc[p] = "create"
          => /\ call[p].opts.CapacityBytes = SizeWanted(call[p].req)
             /\ call[p].calls[1].size = SizeWanted(call[p].req)
             /\ WithinLimit(call[p].req, call[p].opts.CapacityBytes)

\* a volume created with a size rounded up, under a limit
C8_Witness ==
    /\ last.op = "CreateVolume"
    /\ last.code = "OK"
    /\ Issued("CreateDisk")
    /\ last.req.CapacityRange.present
    /\ last.req.CapacityRange.LimitBytes > 0
    /\ last.calls[2].size > last.req.CapacityRange.RequiredBytes
    /\ last.req.CapacityRange.RequiredBytes > 0

(***************************************************************************)
(* C9.  The zone passed to create-disk is the zone value of the first      *)
(* preferred topology that has the zone key; with no such topology, that   *)
(* of the first requisite topology that has it; otherwise, and with no     *)
(* requirement, the empty string.                                          *)
(***************************************************************************)
WithZone(topologies) ==
    {i \in 1..Len(topologies) : TopologyKey \in DOMAIN topologies[i]}
FirstWithZone(topologies) ==
    CHOOSE i \in WithZone(topologies) : \A j \in WithZone(topologies) : i <= j
SelectedZone(t) ==
    IF ~t.present THEN ""
    ELSE IF WithZone(t.preferred) # {}
         THEN t.preferred[FirstWithZone(t.preferred)][TopologyKey]
    ELSE IF WithZone(t.requisite) # {}
         THEN t.requisite[FirstWithZone(t.requisite)][TopologyKey]
    ELSE ""

C9_ZoneSelected ==
    /\ \A p \in Procs :
          pc[p] = "create"
          => call[p].opts.AvailabilityZone
                = SelectedZone(call[p].req.AccessibilityRequirements)
    /\ (last.op = "CreateVolume" /\ Issued("CreateDisk"))
       => LET zone == SelectedZone(last.req.AccessibilityRequirements)
          IN  /\ last.calls[2].opts.AvailabilityZone = zone
              /\ (last.code = "OK" /\ zone # "")
                    => last.res.AccessibleTopology = << (TopologyKey :> zone) >>

\* the second preferred topology is the first with a zone, and the first
\* requisite topology names another zone
C9_Witness ==
    /\ last.op = "CreateVolume"
    /\ last.code = "OK"
    /\ Issued("CreateDisk")
    /\ LET t == last.req.AccessibilityRequirements
       IN  /\ t.present
           /\ Len(t.preferred) = 2
           /\ WithZone(t.preferred) = {2}
           /\ WithZone(t.requisite) # {}
           /\ t.requisite[1][TopologyKey] # t.preferred[2][TopologyKey]
           /\ last.calls[2].opts.AvailabilityZone = t.preferred[2][TopologyKey]

(***************************************************************************)
(* C10.  ValidateVolumeCapabilities with a volume id and capabilities,     *)
(* its lookup answered: not-found when no live volume has the id;          *)
(* otherwise success, the confirmation carrying the requested list when    *)
(* every access mode is single-node-writer and absent when one is not.     *)
(***************************************************************************)
AllSingleNodeWriter(volCaps) ==
    \A i \in 1..Len(volCaps) : volCaps[i].mode = SINGLE_NODE_WRITER

C10_ValidateVolumeCapabilities ==
    [][\A volumeID \in VolIds, volCaps \in CapLists \ {<< >>} :
          (ValidateVolumeCapabilities(volumeID, volCaps) /\ Answered(last'))
          => IF ~\E d \in disks : d.id = volumeID
             THEN last'.code = "NotFound"
             ELSE /\ last'.code = "OK"
                  /\ AllSingleNodeWriter(volCaps)
                        => last'.res = [present |-> TRUE,
                                        VolumeCapabilities |-> volCaps]
                  /\ ~AllSingleNodeWriter(volCaps)
                        => last'.res = [present |-> FALSE,
                                        VolumeCapabilities |-> << >>]]_vars

\* an existing volume, a supported mode first and a multi-node mode after it
C10_Witness ==
    /\ last.op = "ValidateVolumeCapabilities"
    /\ last.code = "OK"
    /\ \E d \in disks : d.id = last.req.VolumeId
    /\ Len(last.req.VolumeCapabilities) = 2
    /\ last.req.VolumeCapabilities[1].mode = SINGLE_NODE_WRITER
    /\ last.req.VolumeCapabilities[2].mode = MULTI_NODE_MULTI_WRITER
    /\ ~last.res.present

(***************************************************************************)
(* C11.  Request validation precedes every backend call: a call of any of  *)
(* the seven operations whose request has an empty required identifier or  *)
(* lacks its required capability argument returns an invalid-request       *)
(* error, has made no backend call and leaves the backend as it was,       *)
(* whatever the backend holds.                                             *)
(***************************************************************************)
MissingRequired(r) ==
    CASE r.op = "CreateVolume" ->
            r.req.Name = "" \/ Len(r.req.VolumeCapabilities) = 0
      [] r.op = "DeleteVolume" -> r.req.VolumeId = ""
      [] r.op = "ControllerPublishVolume" ->
            \/ r.req.VolumeId = ""
            \/ r.req.NodeId = ""
            \/ ~r.req.VolumeCapability.present
      [] r.op = "ControllerUnpublishVolume" ->
            r.req.VolumeId = "" \/ r.req.NodeId = ""
      [] r.op = "ValidateVolumeCapabilities" ->
            r.req.VolumeId = "" \/ Len(r.req.VolumeCapabilities) = 0
      [] r.op = "CreateSnapshot" ->
            r.req.Name = "" \/ r.req.SourceVolumeId = ""
      [] r.op = "DeleteSnapshot" -> r.req.SnapshotId = ""
      [] OTHER -> FALSE

C11_ValidationPrecedesBackend ==
    [][(last' # last /\ MissingRequired(last'))
          => /\ last'.code = "InvalidArgument"
             /\ last'.calls = << >>
             /\ UNCHANGED <<disks, nextVol, snaps, nextSnap, attached, pc>>]_vars

\* a publish request without its capability, for a live volume and an
\* instance that exists
C11_Witness ==
    /\ last.op = "ControllerPublishVolume"
    /\ ~last.req.VolumeCapability.present
    /\ \E d \in disks : d.id = last.req.VolumeId
    /\ last.req.NodeId \in Instances
    /\ last.code = "InvalidArgument"
    /\ last.calls = << >>

(***************************************************************************)
(* C12.  ControllerPublishVolume issues the backend attach only after, in  *)
(* the same call, the instance lookup returned true and the volume lookup  *)
(* by id succeeded, and only for a supported capability.  A valid request  *)
(* for an instance that does not exist, or (the lookup answered) for a     *)
(* volume that does not exist, returns not-found with no attach issued;    *)
(* an attachment appears only in a call whose two lookups succeeded.       *)
(***************************************************************************)
LookupsSucceeded(req, calls) ==
    /\ Len(calls) >= 2
    /\ calls[1] = [fn |-> "IsExistInstance", node |-> req.NodeId, ok |-> TRUE,
                   err |-> "nil"]
    /\ calls[2] = [fn |-> "GetDiskByID", id |-> req.VolumeId, err |-> "nil"]
    /\ req.VolumeCapability.present
    /\ \E i \in 1..Len(volumeCaps) :
          volumeCaps[i].mode = req.VolumeCapability.mode

AttachIssued(r) ==
    r.op = "ControllerPublishVolume"
    /\ \E i \in 1..Len(r.calls) : r.calls[i].fn = "AttachDisk"

C12_AttachOnlyAfterLookups ==
    [][/\ AttachIssued(last')
          => (LookupsSucceeded(last'.req, last'.calls) /\ Len(last'.calls) = 3)
       /\ \A p \in Procs :
             pc'[p] = "attach" => LookupsSucceeded(call'[p].req, call'[p].calls)
       /\ attached' # attached /\ ~(attached' \subseteq attached)
          => (AttachIssued(last') /\ LookupsSucceeded(last'.req, last'.calls))
       /\ \A p \in Procs, req \in ControllerPublishVolumeRequests :
             (/\ ControllerPublishVolumeLookup(p, req)
              /\ ControllerPublishVolumeCheck(req) = ""
              /\ Answered(last')
              /\ \/ ~IsExistInstance(req.NodeId)
                 \/ ~\E d \in disks : d.id = req.VolumeId)
             => /\ last'.req = req
                /\ last'.code = "NotFound"
                /\ ~AttachIssued(last')
                /\ pc'[p] = "ready"
                /\ attached' = attached]_vars

\* a volume attached by a call that found the instance and the volume
C12_Witness ==
    /\ last.op = "ControllerPublishVolume"
    /\ last.code = "OK"
    /\ AttachIssued(last)
    /\ LookupsSucceeded(last.req, last.calls)
    /\ \E a \in attached : a.vol = last.req.VolumeId /\ a.node = last.req.NodeId

\* a valid request for a volume that does not exist: not-found, no attach
C12_WitnessMissing ==
    /\ last.op = "ControllerPublishVolume"
    /\ last.code = "NotFound"
    /\ Len(last.calls) = 2
    /\ last.calls[1].ok

(***************************************************************************)
(* C13.  As claimed: every error CreateSnapshot returns is of the class    *)
(* invalid-argument, already-exists or internal; a name lookup that fails  *)
(* other than with not-found, a failed snapshot creation and a creation    *)
(* time that does not convert are each an internal error.                  *)
(***************************************************************************)
C13_SnapshotErrorClasses ==
    (last.op = "CreateSnapshot" /\ last.code # "OK")
    => /\ last.code \in {"InvalidArgument", "AlreadyExists", "Internal"}
       /\ (\E i \in 1..Len(last.calls) :
              /\ last.calls[i].fn = "GetSnapshotByName"
              /\ last.calls[i].err \notin {"nil", "ErrNotFound"})
          => last.code = "Internal"
       /\ (\E i \in 1..Len(last.calls) :
              /\ last.calls[i].fn = "CreateSnapshot"
              /\ last.calls[i].err # "nil")
          => last.code = "Internal"
       /\ last.msg = "timestamp" => last.code = "Internal"

(***************************************************************************)
(* C14.  A ControllerPublishVolume that reaches the attach call succeeds   *)
(* exactly when the backend attach returns a device path, and its publish  *)
(* context then carries exactly that path; when the attach reports         *)
(* already-exists, as it does for a volume attached to another node, the   *)
(* call fails with already-exists; every other attach failure is an        *)
(* internal error.                                                         *)
(***************************************************************************)
C14_AttachOutcome ==
    [][\A p \in Procs :
          ControllerPublishVolumeAttach(p)
          => LET req == call[p].req
                 a == last'.calls[Len(last'.calls)]
             IN  /\ last'.op = "ControllerPublishVolume" /\ last'.req = req
                 /\ a.fn = "AttachDisk"
                 /\ last'.code = "OK" <=> a.err = "nil"
                 /\ a.err = "nil"
                       => /\ a.devicePath \in Devices
                          /\ last'.res.PublishContext
                                = [k \in {DevicePathKey} |-> a.devicePath]
                 /\ a.err = "ErrAlreadyExists" => last'.code = "AlreadyExists"
                 /\ a.err \notin {"nil", "ErrAlreadyExists"}
                       => last'.code = "Internal"
                 /\ last'.code # "OK" => last'.res = NoPublish
                 /\ (/\ Answered(last')
                     /\ \E d \in disks : d.id = req.VolumeId
                     /\ \E x \in attached :
                           x.vol = req.VolumeId /\ x.node # req.NodeId)
                       => (last'.code = "AlreadyExists" /\ attached' = attached)]_vars

\* a volume attached to one instance, published to another: a conflict
C14_Witness ==
    /\ last.op = "ControllerPublishVolume"
    /\ last.code = "AlreadyExists"
    /\ AttachIssued(last)
    /\ \E x \in attached :
          x.vol = last.req.VolumeId /\ x.node # last.req.NodeId

(***************************************************************************)
(* C15.  CreateVolume issues create-disk only if, earlier in the same      *)
(* call, the lookup by name reported the volume absent; after any other    *)
(* lookup outcome (volume found, size mismatch, multiple found, any other  *)
(* error) the call ends without a create-disk call.                        *)
(***************************************************************************)
ReportedAbsent(req, calls) ==
    /\ Len(calls) >= 1
    /\ calls[1].fn = "GetDiskByName"
    /\ calls[1].name = req.Name
    /\ calls[1].err = "ErrNotFound"

C15_CreateOnlyWhenAbsent ==
    /\ (last.op = "CreateVolume" /\ Issued("CreateDisk"))
       => /\ ReportedAbsent(last.req, last.calls)
          /\ Len(last.calls) = 2
          /\ last.calls[2].fn = "CreateDisk"
    /\ (last.op = "CreateVolume" /\ last.calls # << >>
        /\ last.calls[1].err # "ErrNotFound")
       => (Len(last.calls) = 1 /\ ~Issued("CreateDisk"))
    /\ \A p \in Procs :
          pc[p] = "create"
          => (ReportedAbsent(call[p].req, call[p].calls) /\ Len(call[p].calls) = 1)

\* a volume created while another volume existed, its name reported absent
C15_Witness ==
    /\ last.op = "CreateVolume"
    /\ last.code = "OK"
    /\ Issued("CreateDisk")
    /\ ReportedAbsent(last.req, last.calls)
    /\ \E d \in disks : d.name # last.req.Name

(***************************************************************************)
(* C16.  While the backend holds more than one live volume of a name,      *)
(* every CreateVolume for that name that passes the request checks fails   *)
(* with an internal error, returns no volume and creates nothing: the      *)
(* backend is left as it was, so a retry meets the same state.             *)
(***************************************************************************)
C16_MultipleFoundIsInternal ==
    [][\A p \in Procs, req \in SomeCreateVolumeRequests :
          (/\ CreateVolumeLookup(p, req)
           /\ Cardinality(DisksByName(req.Name)) > 1
           /\ CreateVolumeCheck(req).msg = "")
          => /\ last'.op = "CreateVolume" /\ last'.req = req
             /\ last'.code = "Internal"
             /\ last'.res = NoVolume
             /\ \A i \in 1..Len(last'.calls) : last'.calls[i].fn # "CreateDisk"
             /\ pc'[p] = "ready"
             /\ UNCHANGED <<disks, nextVol>>]_vars

\* a call that met two live volumes of its name
C16_Witness ==
    /\ last.op = "CreateVolume"
    /\ last.code = "Internal"
    /\ last.calls # << >>
    /\ last.calls[1].err = "ErrMultiDisks"
    /\ Cardinality(DisksByName(last.req.Name)) > 1
    /\ last.res = NoVolume

(***************************************************************************)
(* C17.  Under one caller, whose CreateVolume calls do not overlap, with   *)
(* any mix of sizes and parameters and with backend calls that fail        *)
(* without effect or succeed atomically, the backend never holds more than *)
(* one live volume of a name, and every CreateVolume that succeeds returns *)
(* the identifier of the one live volume of its name.                      *)
(***************************************************************************)
C17_SequentialCallsKeepNameUnique ==
    /\ \A d1 \in disks, d2 \in disks : d1.name = d2.name => d1 = d2
    /\ (last.op = "CreateVolume" /\ last.code = "OK")
       => \E d \in disks :
             /\ DisksByName(last.req.Name) = {d}
             /\ last.res.VolumeId = d.id

\* a second volume exists, and a retry with other parameters returned the
\* one volume of its name without creating another
C17_Witness ==
    /\ last.op = "CreateVolume"
    /\ last.code = "OK"
    /\ ~Issued("CreateDisk")
    /\ last.req.Parameters # EmptyMap
    /\ Cardinality(disks) = 2
    /\ DisksByName(last.req.Name) = {d \in disks : d.id = last.res.VolumeId}

(***************************************************************************)
(* C18.  On the replay path CreateVolume compares only name and size: a    *)
(* request that passes the request checks and whose name and normalized    *)
(* size are those of the one live volume of that name succeeds, its lookup *)
(* answered, and returns that volume without creating one, whatever its    *)
(* topology requirement, parameters and content source; the accessible     *)
(* topology of the response has exactly one entry, the zone of the         *)
(* existing volume.                                                        *)
(***************************************************************************)
PassesRequestChecks(req) ==
    /\ req.Name # ""
    /\ WithinLimit(req, SizeWanted(req))
    /\ Len(req.VolumeCapabilities) > 0
    /\ AllSingleNodeWriter(req.VolumeCapabilities)

Matches(d, req) ==
    /\ DisksByName(req.Name) = {d}
    /\ d.gib * GiB = SizeWanted(req)

C18_ReplayComparesNameAndSize ==
    [][\A d \in disks :
          (/\ last' # last
           /\ last'.op = "CreateVolume"
           /\ PassesRequestChecks(last'.req)
           /\ Answered(last')
           /\ Matches(d, last'.req))
          => /\ last'.code = "OK"
             /\ last'.res.VolumeId = d.id
             /\ last'.res.CapacityBytes = SizeWanted(last'.req)
             /\ last'.res.AccessibleTopology
                   = << [k \in {TopologyKey} |-> d.zone] >>
             /\ Len(last'.calls) = 1
             /\ disks' = disks]_vars

\* the request selects a zone, the volume found is in another one
C18_Witness ==
    /\ last.op = "CreateVolume"
    /\ last.code = "OK"
    /\ ~Issued("CreateDisk")
    /\ \E d \in disks :
          /\ d.id = last.res.VolumeId
          /\ SelectedZone(last.req.AccessibilityRequirements) \notin {"", d.zone}
          /\ last.res.AccessibleTopology = << [k \in {TopologyKey} |-> d.zone] >>

\* the request names another volume type, encryption or source snapshot
C18_WitnessOtherAttributes ==
    /\ last.op = "CreateVolume"
    /\ last.code = "OK"
    /\ ~Issued("CreateDisk")
    /\ \E d \in disks :
          /\ d.id = last.res.VolumeId
          /\ \/ d.volumeType # MapGet(last.req.Parameters, VolumeTypeKey)
             \/ d.encrypted # (MapGet(last.req.Parameters, EncryptedKey) = "true")
             \/ d.snapshotID # last.req.VolumeContentSource.SnapshotId

(***************************************************************************)
(* C19.  The IOPS-per-GB check and the content-source check of             *)
(* CreateVolume come after the lookup, on the create path only.  A request *)
(* that passes the request checks and asks for the provisioned-IOPS type   *)
(* with a missing or unparsable IOPS-per-GB value, or has a content source *)
(* that is not a snapshot, makes the lookup by name; its lookup answered,  *)
(* it fails as an invalid request with no create-disk call when no volume  *)
(* has the name, and succeeds with the existing volume when one volume has *)
(* the name and the size.                                                  *)
(***************************************************************************)
Numerals == {"100"}
FailsOnCreatePath(req) ==
    \/ /\ VolumeTypeKey \in DOMAIN req.Parameters
       /\ req.Parameters[VolumeTypeKey] = VolumeTypeIO1
       /\ \/ IopsPerGBKey \notin DOMAIN req.Parameters
          \/ req.Parameters[IopsPerGBKey] \notin Numerals
    \/ /\ req.VolumeContentSource.present
       /\ req.VolumeContentSource.type # "snapshot"

C19_CreatePathChecksFollowLookup ==
    [][(/\ last' # last
        /\ last'.op = "CreateVolume"
        /\ PassesRequestChecks(last'.req)
        /\ FailsOnCreatePath(last'.req))
       => /\ Len(last'.calls) = 1
          /\ last'.calls[1].fn = "GetDiskByName"
          /\ disks' = disks
          /\ (Answered(last') /\ DisksByName(last'.req.Name) = {})
                => last'.code = "InvalidArgument"
          /\ \A d \in disks :
                (Answered(last') /\ Matches(d, last'.req))
                => (last'.code = "OK" /\ last'.res.VolumeId = d.id)]_vars

\* the request that is invalid while the name is free succeeds once a
\* volume has the name
C19_Witness ==
    /\ last.op = "CreateVolume"
    /\ FailsOnCreatePath(last.req)
    /\ last.code = "OK"
    /\ \E d \in disks : Matches(d, last.req) /\ last.res.VolumeId = d.id

\* the same kind of request, the name free: invalid, after the lookup
C19_WitnessRejected ==
    /\ last.op = "CreateVolume"
    /\ FailsOnCreatePath(last.req)
    /\ last.code = "InvalidArgument"
    /\ Len(last.calls) = 1
    /\ last.calls[1].err = "ErrNotFound"

====
